---------------------------- MODULE Spec2Model ----------------------------
(***************************************************************************)
(* A model of examples/python/gee_score_test_simulation.py: the copula     *)
(* generator of correlated uniforms, the negative-binomial generator       *)
(* negbinom, the Monte Carlo driver dosim and the module-level script      *)
(* that calls it and reports.                                              *)
(*                                                                         *)
(* Real numbers are exact rationals [num, den] in lowest terms.  The       *)
(* transcendental library functions (norm.cdf, np.exp, the Poisson CDF     *)
(* behind poisson.ppf) are tables of their values, rounded to three        *)
(* decimals, on the grid of arguments the model reaches.  The statsmodels  *)
(* calls (GEE, fit, compare_score_test) are outside the repository: each   *)
(* returns a value chosen from a small set, or raises.                     *)
(***************************************************************************)
EXTENDS Integers, Sequences, FiniteSets, TLC

VARIABLES
    G,      \* the module namespace: the names bound at module level
    L,      \* the frame of the running dosim call: its parameters and locals
    pc,     \* the position inside dosim ("idle" when no call is running)
    mpc,    \* the position of the module-level script
    ret,    \* the value the last dosim call returned
    out,    \* what the script has rendered so far (tables, plots)
    trace,  \* the library calls made by the running dosim call
    exc,    \* the exception propagating out of the program, "none" when none
    gen,    \* the generator harness: one replicate's draws and uniforms
    nb      \* the negbinom harness: one call's arguments, locals and result

vars == <<G, L, pc, mpc, ret, out, trace, exc, gen, nb>>

(***************************************************************************)
(* Bounds of the model.                                                    *)
(***************************************************************************)
\* the generator harness takes every sample size n in 1..MaxN and every
\* cluster size m that divides n (1000 and 10 in the source)
MaxN == 4
\* a direct call of dosim is explored for mcrep in 0..MaxRep
MaxRep == 2
\* the script's dosim(hyp, Independence()) runs its default mcrep (500 in
\* the source), scaled down to McrepDefault replicates
McrepDefault == 1
\* the script's dosim(hyp, Exchangeable(), mcrep=100), scaled down
McrepExch == 1
\* the negbinom harness takes vectors of length 1..MaxLen
MaxLen == 2

(***************************************************************************)
(* Exact rational arithmetic.                                              *)
(***************************************************************************)
Abs(a) == IF a < 0 THEN -a ELSE a

RECURSIVE Gcd(_, _)
Gcd(a, b) == IF b = 0 THEN a ELSE Gcd(b, a % b)

Rat(a, b) ==
    LET s == IF b < 0 THEN -1 ELSE 1
        g == Gcd(Abs(a), Abs(b))
    IN  [num |-> (s * a) \div g, den |-> (s * b) \div g]

RInt(a) == [num |-> a, den |-> 1]
RAdd(a, b) == Rat(a.num * b.den + b.num * a.den, a.den * b.den)
RSub(a, b) == Rat(a.num * b.den - b.num * a.den, a.den * b.den)
RMul(a, b) == Rat(a.num * b.num, a.den * b.den)
RDiv(a, b) == Rat(a.num * b.den, a.den * b.num)
RLess(a, b) == a.num * b.den < b.num * a.den
RLeq(a, b) == a.num * b.den <= b.num * a.den

\* np.sqrt on the rationals that are squares of rationals
ISqrt(k) == CHOOSE s \in 0..k : s * s = k
Sqrt(q) == Rat(ISqrt(q.num), ISqrt(q.den))

(***************************************************************************)
(* numpy array helpers (arrays are sequences, index 1 is numpy's index 0). *)
(***************************************************************************)
\* np.ones(k)
ones(k) == [i \in 1..k |-> 1]

\* np.arange(k)
arange(k) == [i \in 1..k |-> i - 1]

\* a faulty variant of kron: the factors in the other order (np.tile, not repeat)
kronSwapped(a, b) ==
    [t \in 1..(Len(a) * Len(b)) |->
        a[((t - 1) % Len(a)) + 1] * b[((t - 1) \div Len(a)) + 1]]

\* np.kron of two vectors: element i*len(b)+j is a[i]*b[j]
kron(a, b) ==
    [t \in 1..(Len(a) * Len(b)) |->
        a[((t - 1) \div Len(b)) + 1] * b[((t - 1) % Len(b)) + 1]]

\* scipy's norm.cdf at k/5, k = 0..10, in thousandths
NormCdfTable == <<500, 579, 655, 726, 788, 841, 885, 919, 945, 964, 977>>

\* norm.cdf(v) for a rational v on the grid of fifths
norm_cdf(v) ==
    LET k == (v.num * 5) \div v.den
    IN  IF k >= 0 THEN Rat(NormCdfTable[k + 1], 1000)
        ELSE Rat(1000 - NormCdfTable[(-k) + 1], 1000)

(***************************************************************************)
(* The values the random draws and the parameters range over.              *)
(***************************************************************************)
\* values of one np.random.normal draw
ZVals == {-1, 1}
\* values of the intraclass correlation r (0.5 in the source)
RVals == {Rat(0, 1), Rat(3, 5), Rat(4, 5), Rat(1, 1)}
\* all vectors of length k over S
Vectors(S, k) == [1..k -> S]

(***************************************************************************)
(* The correlated-uniform step of dosim, lines 119-123, as dosim computes  *)
(* it.  zdraw is the draw of line 119, udraw the draw of line 120.         *)
(***************************************************************************)
CorrelatedUniforms(g, zdraw, udraw) ==
    LET z0 == [i \in 1..g.n |-> RInt(zdraw[i])]
        u1 == kron(udraw, ones(g.m))
        w  == Sqrt(RSub(RInt(1), RMul(g.r, g.r)))
        z1 == [i \in 1..g.n |-> RAdd(RMul(g.r, z0[i]), RMul(w, RInt(u1[i])))]
        u2 == [i \in 1..g.n |-> norm_cdf(z1[i])]
    IN  [z |-> z1, u |-> u2]

\* line 68: grp = np.kron(np.arange(n / m), np.ones(m))
GroupVector(n_, m_) == kron(arange(n_ \div m_), ones(m_))

(***************************************************************************)
(* The module-level setup, lines 55-99.                                    *)
(***************************************************************************)
\* np.exp at the linear predictors the model reaches, in thousandths
ExpTable ==
    (376 :> 42948) @@ (380 :> 44701) @@ (396 :> 52457) @@ (400 :> 54598) @@
    (416 :> 64072) @@ (420 :> 66686) @@ (436 :> 78257) @@ (440 :> 81451)

np_exp(v) == Rat(ExpTable[(v.num * 100) \div v.den], 1000)

RECURSIVE DotFrom(_, _, _)
DotFrom(row, c, j) ==
    IF j > Len(c) THEN RInt(0)
    ELSE RAdd(RMul(RInt(row[j]), c[j]), DotFrom(row, c, j + 1))

\* np.dot of a matrix (a sequence of rows) and a coefficient vector
dot(X, c) == [i \in 1..Len(X) |-> DotFrom(X[i], c, 1)]

\* line 93
coeff ==
    << <<RInt(4), Rat(2, 5), Rat(-1, 5)>>,
       <<RInt(4), Rat(2, 5), Rat(-1, 5), RInt(0), Rat(-1, 25)>> >>

\* rows of the draw np.random.normal(size=(n, p)) of line 73
DesignRows == {<<0, 1, 0, 0, 1>>, <<1, 0, 1, 1, 0>>}

\* The namespace after lines 55-99 for sample size n_, cluster size m_,
\* intraclass correlation r_, dispersion scale_ and the draw xdraw of line 73
Setup(n_, m_, r_, scale_, xdraw) ==
    LET p_  == RInt(5)
        x_  == [i \in 1..n_ |-> [j \in 1..p_.num |-> IF j = 1 THEN 1 ELSE xdraw[i][j]]]
        x0_ == [i \in 1..n_ |-> SubSeq(x_[i], 1, 3)]
        lp_ == <<dot(x0_, coeff[1]), dot(x_, coeff[2])>>
    IN  [n |-> n_, p |-> p_, m |-> m_, r |-> r_,
         grp |-> GroupVector(n_, m_),
         x |-> x_, x0 |-> x0_, scale |-> scale_,
         coeff |-> coeff, lp |-> lp_,
         mu |-> <<[i \in 1..n_ |-> np_exp(lp_[1][i])],
                  [i \in 1..n_ |-> np_exp(lp_[2][i])]>>]

(***************************************************************************)
(* Python name binding.  An environment is the module namespace G, the     *)
(* frame F of the running function and the names decl the function         *)
(* declares global.  An assignment inside a function binds the name in     *)
(* the frame unless the function declares it global; a read finds the      *)
(* frame's binding first and the module's otherwise.                       *)
(***************************************************************************)
Store(env, name, val) ==
    IF name \in env.decl
    THEN [env EXCEPT !.G = (name :> val) @@ env.G]
    ELSE [env EXCEPT !.F = (name :> val) @@ env.F]

Load(env, name) ==
    IF name \in DOMAIN env.F THEN env.F[name] ELSE env.G[name]

\* a faulty variant of negbinom_globals: a "global p" statement in negbinom
negbinom_globals_p == {"p"}

\* the names negbinom declares global (lines 45-49 hold no global statement)
negbinom_globals == {}

\* the names dosim declares global (lines 106-153 hold no global statement)
dosim_globals == {}

(***************************************************************************)
(* negbinom, lines 45-49.                                                  *)
(***************************************************************************)
\* the Poisson CDF at 0, 1, 2, ... in thousandths, for the means 2*lam = 1, 2, 4
PoissonCdfTable ==
    (1 :> <<607, 910, 986, 998, 1000>>) @@
    (2 :> <<368, 736, 920, 981, 996, 999, 1000>>) @@
    (4 :> <<135, 406, 677, 857, 947, 983, 995, 999, 1000>>)

\* poisson.ppf(q, mu=lam) for one element: the least count whose CDF is >= q
poisson_ppf1(q, lam) ==
    LET T == PoissonCdfTable[(2 * lam.num) \div lam.den]
        k == CHOOSE j \in 1..Len(T) :
                /\ RLeq(q, Rat(T[j], 1000))
                /\ \A h \in 1..(j - 1) : ~RLeq(q, Rat(T[h], 1000))
    IN  RInt(k - 1)

\* poisson.ppf over arrays
poisson_ppf(q, lam) == [i \in 1..Len(q) |-> poisson_ppf1(q[i], lam[i])]

\* line 46: p = (scale - 1) / scale
nb_p(scale_) == RDiv(RSub(scale_, RInt(1)), scale_)

\* a faulty variant of nb_r: p and 1 - p exchanged
nb_r_swapped(mu_, p_) ==
    [i \in 1..Len(mu_) |-> RDiv(RMul(mu_[i], p_), RSub(RInt(1), p_))]

\* line 47: r = mu * (1 - p) / p
nb_r(mu_, p_) ==
    [i \in 1..Len(mu_) |-> RDiv(RMul(mu_[i], RSub(RInt(1), p_)), p_)]

\* a faulty variant of negbinom: the latent intensity returned, not the count
negbinom_intensity(g, u_, mu_, scale_, xdraw) ==
    [G |-> g, F |-> [u |-> u_, mu |-> mu_, scale |-> scale_],
     gamma |-> [shape |-> nb_r(mu_, nb_p(scale_)), size |-> Len(u_),
                scale |-> RDiv(nb_p(scale_), RSub(RInt(1), nb_p(scale_)))],
     ret |-> xdraw]

\* negbinom(u, mu, scale) called with module namespace g; xdraw is what
\* np.random.gamma returns at line 48.  The result is the namespace and the
\* frame at the return, the arguments given to np.random.gamma, and the
\* returned array.
negbinom(g, u_, mu_, scale_, xdraw) ==
    LET e0 == [G |-> g, F |-> [u |-> u_, mu |-> mu_, scale |-> scale_],
               decl |-> negbinom_globals]
        e1 == Store(e0, "p", nb_p(Load(e0, "scale")))
        e2 == Store(e1, "r", nb_r(Load(e1, "mu"), Load(e1, "p")))
        ga == [shape |-> Load(e2, "r"),
               scale |-> RDiv(Load(e2, "p"), RSub(RInt(1), Load(e2, "p"))),
               size  |-> Len(Load(e2, "u"))]
        e3 == Store(e2, "x", xdraw)
    IN  [G |-> e3.G, F |-> e3.F, gamma |-> ga,
         ret |-> poisson_ppf(Load(e3, "u"), Load(e3, "x"))]

\* values of one np.random.gamma draw
GammaVals == {Rat(1, 2), RInt(2)}

(***************************************************************************)
(* dosim, lines 106-153.  One action per step of the replicate; every      *)
(* step that calls a library may raise instead.                            *)
(***************************************************************************)
\* values of the scale estimate of a fit and of the p-value of a score test
ScaleEstimates == {RInt(9), RInt(11)}
PVals == {RInt(0), Rat(1, 10), RInt(1)}

\* the value np.mean gives for an empty array
NaN == [num |-> 0, den |-> 0]

RECURSIVE SumFrom(_, _)
SumFrom(a, j) == IF j > Len(a) THEN RInt(0) ELSE RAdd(a[j], SumFrom(a, j + 1))

\* a faulty variant of np_mean: the sum, not divided by the length
np_sum(a) == SumFrom(a, 1)

\* np.mean of a one-dimensional array
np_mean(a) == IF Len(a) = 0 THEN NaN ELSE RDiv(SumFrom(a, 1), RInt(Len(a)))

\* a faulty variant of np_less: pv <= c
np_less_equal(a, c) ==
    [i \in 1..Len(a) |-> IF RLeq(a[i], c) THEN RInt(1) ELSE RInt(0)]

\* line 151: pv < c, a boolean array that np.mean reads as zeros and ones
np_less(a, c) ==
    [i \in 1..Len(a) |-> IF RLess(a[i], c) THEN RInt(1) ELSE RInt(0)]

\* a faulty variant of range_stop: one replicate too many
range_stop_plus(k) == k + 1

\* line 115: range(mcrep) yields 0, ..., mcrep - 1
range_stop(k) == k

\* a faulty variant of dosim_handlers: a failing fit is caught and the loop goes on
dosim_handlers_fit == {"fit0", "fit1"}

\* the steps of dosim inside a try/except (lines 106-153 hold none)
dosim_handlers == {}

\* sm.GEE(endog, exog, groups=..., cov_struct=..., family=Poisson()): the
\* model object; born is the replicate that constructed it
GEE(endog_, exog_, groups_, cov_, born_) ==
    [endog |-> endog_, exog |-> exog_, groups |-> groups_,
     cov_struct |-> cov_, family |-> "Poisson", born |-> born_]

\* a faulty variant of ScoreTestArgs: the null model compared against the
\* alternative fit
ScoreTestArgsSwapped(e) == [model |-> Load(e, "m0"), submodel |-> Load(e, "r1")]

\* line 147: m1.compare_score_test(r0)
ScoreTestArgs(e) == [model |-> Load(e, "m1"), submodel |-> Load(e, "r0")]

\* no frame, no generator harness, no negbinom harness
Idle == [at |-> "idle"]
NoGen == [obs |-> 0, has |-> FALSE]
NoNb == [has |-> FALSE]

Env == [G |-> G, F |-> L, decl |-> dosim_globals]

\* the library calls of a dosim call with frame f, none made yet: the call's
\* arguments, the number of generator runs and of negbinom calls, the mean
\* vector given to the last negbinom call, the fits and the score tests
NewTrace(f) ==
    [args |-> f, gen |-> 0, y |-> 0, ymu |-> <<>>, fits |-> <<>>, tests |-> <<>>]

\* what the trace keeps of a fit and of a score test: everything but the
\* response vector
FitLog(r_) ==
    [born |-> r_.model.born, exog |-> r_.model.exog, groups |-> r_.model.groups,
     cov_struct |-> r_.model.cov_struct, family |-> r_.model.family,
     scaletype |-> r_.scaletype, scale |-> r_.scale]

TestLog(st_) ==
    [pvalue |-> st_.pvalue,
     model |-> [born |-> st_.args.model.born, exog |-> st_.args.model.exog],
     submodel |-> [born |-> st_.args.submodel.model.born,
                   exog |-> st_.args.submodel.model.exog]]

NoTrace == NewTrace([hyp |-> 0, cov_struct |-> "None", mcrep |-> 0])

\* the frame of a call dosim(hyp, cov_struct, mcrep)
CallFrame(hyp_, cov_, mcrep_) ==
    [hyp |-> hyp_, cov_struct |-> cov_, mcrep |-> mcrep_]

\* An exception raised at a step of dosim: no handler in dosim, none at
\* module level, so the frame is dropped and the program ends.
Raise(step) ==
    IF step \in dosim_handlers
    THEN /\ exc' = step
         /\ pc' = "for"
         /\ UNCHANGED <<G, L, mpc, ret, out, trace, gen, nb>>
    ELSE /\ exc' = step
         /\ pc' = "idle"
         /\ L' = Idle
         /\ mpc' = [mpc EXCEPT !.at = "traceback"]
         /\ UNCHANGED <<G, ret, out, trace, gen, nb>>

\* lines 109-112, and the iterator of line 115
DosimEnter ==
    /\ pc = "enter"
    /\ LET e1 == Store(Env, "scales", <<<<>>, <<>>>>)
           e2 == Store(e1, "pv", <<>>)
       IN  /\ G' = e2.G
           /\ L' = ("iter" :> 0) @@ e2.F
    /\ trace' = NewTrace(L)
    /\ pc' = "for"
    /\ UNCHANGED <<mpc, ret, out, exc, gen, nb>>

\* line 115: the next k, or the end of the loop
ForNext ==
    /\ pc = "for"
    /\ IF L.iter < range_stop(Load(Env, "mcrep"))
       THEN LET e1 == Store(Env, "k", L.iter)
            IN  /\ G' = e1.G
                /\ L' = [e1.F EXCEPT !["iter"] = L.iter + 1]
                /\ pc' = "gen"
       ELSE /\ pc' = "summ"
            /\ UNCHANGED <<G, L>>
    /\ UNCHANGED <<mpc, ret, out, trace, exc, gen, nb>>

\* lines 119-123
GenUniforms ==
    /\ pc = "gen"
    /\ \/ \E zdraw \in Vectors(ZVals, Load(Env, "n")),
             udraw \in Vectors(ZVals, Load(Env, "n") \div Load(Env, "m")) :
            LET res == CorrelatedUniforms(
                          [n |-> Load(Env, "n"), m |-> Load(Env, "m"),
                           r |-> Load(Env, "r")], zdraw, udraw)
                e1  == Store(Env, "z", res.z)
                e2  == Store(e1, "u", res.u)
            IN  /\ G' = e2.G
                /\ L' = e2.F
                /\ trace' = [trace EXCEPT !.gen = trace.gen + 1]
                /\ pc' = "geny"
                /\ UNCHANGED <<mpc, ret, out, exc, gen, nb>>
       \/ Raise("gen")

\* line 126: y = negbinom(u, mu=mu[hyp], scale=scale)
GenResponse ==
    /\ pc = "geny"
    /\ \/ \E xdraw \in Vectors(GammaVals, Len(Load(Env, "u"))) :
            LET res == negbinom(G, Load(Env, "u"),
                                Load(Env, "mu")[Load(Env, "hyp") + 1],
                                Load(Env, "scale"), xdraw)
                e1  == Store([Env EXCEPT !.G = res.G], "y", res.ret)
            IN  /\ G' = e1.G
                /\ L' = e1.F
                /\ trace' = [trace EXCEPT !.y = trace.y + 1,
                                          !.ymu = res.F.mu]
                /\ pc' = "fit0"
                /\ UNCHANGED <<mpc, ret, out, exc, gen, nb>>
       \/ Raise("geny")

\* lines 129-135: the null model, its fit, its scale appended to scales[0]
FitNull ==
    /\ pc = "fit0"
    /\ \/ \E sc \in ScaleEstimates :
            LET e1 == Store(Env, "m0",
                            GEE(Load(Env, "y"), Load(Env, "x0"), Load(Env, "grp"),
                                Load(Env, "cov_struct"), Load(Env, "k")))
                e2 == Store(e1, "r0", [model |-> Load(e1, "m0"), scale |-> sc,
                                       scaletype |-> "X2"])
                sl == Load(e2, "scales")
                e3 == Store(e2, "scales",
                            [sl EXCEPT ![1] = Append(sl[1], Load(e2, "r0").scale)])
            IN  /\ G' = e3.G
                /\ L' = e3.F
                /\ trace' = [trace EXCEPT !.fits =
                                Append(trace.fits, FitLog(Load(e3, "r0")))]
                /\ pc' = "fit1"
                /\ UNCHANGED <<mpc, ret, out, exc, gen, nb>>
       \/ Raise("fit0")

\* lines 138-144: the alternative model, its fit, its scale appended to scales[1]
FitAlt ==
    /\ pc = "fit1"
    /\ \/ \E sc \in ScaleEstimates :
            LET e1 == Store(Env, "m1",
                            GEE(Load(Env, "y"), Load(Env, "x"), Load(Env, "grp"),
                                Load(Env, "cov_struct"), Load(Env, "k")))
                e2 == Store(e1, "r1", [model |-> Load(e1, "m1"), scale |-> sc,
                                       scaletype |-> "X2"])
                sl == Load(e2, "scales")
                e3 == Store(e2, "scales",
                            [sl EXCEPT ![2] = Append(sl[2], Load(e2, "r1").scale)])
            IN  /\ G' = e3.G
                /\ L' = e3.F
                /\ trace' = [trace EXCEPT !.fits =
                                Append(trace.fits, FitLog(Load(e3, "r1")))]
                /\ pc' = "score"
                /\ UNCHANGED <<mpc, ret, out, exc, gen, nb>>
       \/ Raise("fit1")

\* lines 147-148: the score test and its p-value appended to pv
ScoreTest ==
    /\ pc = "score"
    /\ \/ \E pval \in PVals :
            LET e1 == Store(Env, "st", [pvalue |-> pval, args |-> ScoreTestArgs(Env)])
                e2 == Store(e1, "pv", Append(Load(e1, "pv"), Load(e1, "st").pvalue))
            IN  /\ G' = e2.G
                /\ L' = e2.F
                /\ trace' = [trace EXCEPT !.tests =
                                Append(trace.tests, TestLog(Load(e2, "st")))]
                /\ pc' = "for"
                /\ UNCHANGED <<mpc, ret, out, exc, gen, nb>>
       \/ Raise("score")

\* lines 150-153: the summary and the return
Summarise ==
    /\ pc = "summ"
    /\ LET e1 == Store(Env, "pv", Load(Env, "pv"))
           e2 == Store(e1, "rslt",
                       <<np_mean(Load(e1, "pv")),
                         np_mean(np_less(Load(e1, "pv"), Rat(1, 10)))>>)
       IN  /\ G' = e2.G
           /\ ret' = <<Load(e2, "rslt"), Load(e2, "scales")>>
    /\ L' = Idle
    /\ pc' = "idle"
    /\ UNCHANGED <<mpc, out, trace, exc, gen, nb>>

DosimNext ==
    \/ DosimEnter \/ ForNext \/ GenUniforms \/ GenResponse
    \/ FitNull \/ FitAlt \/ ScoreTest \/ Summarise

\* the covariance structures given to dosim
CovStructs == {"None", "Independence", "Exchangeable"}

\* dosim called once, with every hyp, cov_struct and mcrep in 0..MaxRep
SimInit ==
    /\ \E row \in DesignRows : G = Setup(1, 1, Rat(3, 5), RInt(10), <<row>>)
    /\ \E h \in {0, 1}, c \in CovStructs, k \in 0..MaxRep : L = CallFrame(h, c, k)
    /\ pc = "enter" /\ mpc = [blk |-> 0, at |-> "direct", i |-> 0]
    /\ ret = <<>> /\ out = <<>> /\ trace = NoTrace /\ exc = "none"
    /\ gen = NoGen /\ nb = NoNb

SpecSim == SimInit /\ [][DosimNext]_vars

(***************************************************************************)
(* The module-level script, lines 163-196: two reporting blocks, the       *)
(* first with the Independence structure and the default mcrep, the        *)
(* second with the Exchangeable structure and mcrep=100.                   *)
(***************************************************************************)
\* an assignment at module level binds the name in the module namespace
Bind(g, name, val) == (name :> val) @@ g

BlockCov(blk) == IF blk = 1 THEN "Independence" ELSE "Exchangeable"
BlockMcrep(blk) == IF blk = 1 THEN McrepDefault ELSE McrepExch

ScriptInit ==
    /\ G = Setup(1, 1, Rat(3, 5), RInt(10), <<<<0, 1, 0, 0, 1>>>>)
    /\ L = Idle /\ pc = "idle" /\ mpc = [blk |-> 1, at |-> "reset", i |-> 0]
    /\ ret = <<>> /\ out = <<>> /\ trace = NoTrace /\ exc = "none"
    /\ gen = NoGen /\ nb = NoNb

\* lines 163 and 187: rslt, scales = [], []
ScriptReset ==
    /\ mpc.at = "reset"
    /\ G' = Bind(Bind(G, "rslt", <<>>), "scales", <<>>)
    /\ mpc' = [mpc EXCEPT !.at = "for", !.i = 0]
    /\ UNCHANGED <<L, pc, ret, out, trace, exc, gen, nb>>

\* lines 165-166 and 189-190: the next hyp of "for hyp in 0, 1" and the call
\* of dosim, or the end of the loop
ScriptFor ==
    /\ mpc.at = "for" /\ pc = "idle"
    /\ IF mpc.i < 2
       THEN /\ G' = Bind(G, "hyp", mpc.i)
            /\ L' = CallFrame(mpc.i, BlockCov(mpc.blk), BlockMcrep(mpc.blk))
            /\ pc' = "enter"
            /\ mpc' = [mpc EXCEPT !.at = "recv"]
       ELSE /\ mpc' = [mpc EXCEPT !.at = "table"]
            /\ UNCHANGED <<G, L, pc>>
    /\ UNCHANGED <<ret, out, trace, exc, gen, nb>>

\* lines 166-168 and 190-192: s, t = <the returned pair>; the two appends
ScriptRecv ==
    /\ mpc.at = "recv" /\ pc = "idle"
    /\ LET g1 == Bind(Bind(G, "s", ret[1]), "t", ret[2])
           g2 == Bind(g1, "rslt", Append(g1.rslt, g1.s))
       IN  G' = Bind(g2, "scales", Append(g2.scales, g2.t))
    /\ ret' = <<>>
    /\ mpc' = [mpc EXCEPT !.at = "for", !.i = mpc.i + 1]
    /\ UNCHANGED <<L, pc, out, trace, exc, gen, nb>>

\* lines 170 and 194: rslt = pd.DataFrame(rslt, index=..., columns=...)
ScriptTable ==
    /\ mpc.at = "table"
    /\ G' = Bind(G, "rslt", [data |-> G.rslt, index |-> <<"H0", "H1">>,
                             columns |-> <<"Mean", "Prop(p<0.1)">>])
    /\ mpc' = [mpc EXCEPT !.at = "print"]
    /\ UNCHANGED <<L, pc, ret, out, trace, exc, gen, nb>>

\* lines 172 and 196: print(rslt)
ScriptPrint ==
    /\ mpc.at = "print"
    /\ out' = Append(out, [kind |-> "table", blk |-> mpc.blk])
    /\ mpc' = [mpc EXCEPT !.at = IF mpc.blk = 1 THEN "boxplot" ELSE "end"]
    /\ UNCHANGED <<G, L, pc, ret, trace, exc, gen, nb>>

\* lines 179-180: the box plot of the four scale lists
ScriptBoxplot ==
    /\ mpc.at = "boxplot"
    /\ out' = Append(out, [kind |-> "boxplot", blk |-> mpc.blk])
    /\ G' = Bind(G, "_", <<Len(G.scales[1][1]), Len(G.scales[1][2]),
                           Len(G.scales[2][1]), Len(G.scales[2][2])>>)
    /\ mpc' = [blk |-> 2, at |-> "reset", i |-> 0]
    /\ UNCHANGED <<L, pc, ret, trace, exc, gen, nb>>

ScriptNext ==
    \/ ScriptReset \/ ScriptFor \/ ScriptRecv \/ ScriptTable
    \/ ScriptPrint \/ ScriptBoxplot
    \/ DosimNext

Spec == ScriptInit /\ [][ScriptNext]_vars

(***************************************************************************)
(* The generator harness: dosim's lines 119-123 run replicate after        *)
(* replicate on fresh draws.  It observes one observation obs: the own     *)
(* draws and the uniforms of the observations grp puts in obs's cluster,   *)
(* the latent draw of obs's block, the latent draw of the next block, and  *)
(* what it saw of obs in the replicate before.                             *)
(***************************************************************************)
Members(g, i) == {j \in 1..g.n : g.grp[j] = g.grp[i]}
Block(g, i) == ((i - 1) \div g.m) + 1
NextBlock(g, i) == (Block(g, i) % (g.n \div g.m)) + 1

UInit ==
    /\ \E n_ \in 1..MaxN, m_ \in 1..MaxN, r_ \in RVals :
          /\ n_ % m_ = 0
          /\ G = Setup(n_, m_, r_, RInt(10),
                       [i \in 1..n_ |-> <<0, 1, 0, 0, 1>>])
    /\ \E i \in 1..G.n :
          gen = [obs |-> i, has |-> FALSE, zc |-> <<>>, ub |-> 0, uc |-> <<>>,
                 nxt |-> 0, prev |-> [has |-> FALSE]]
    /\ L = Idle /\ pc = "idle" /\ mpc = [blk |-> 0, at |-> "harness", i |-> 0] /\ ret = <<>>
    /\ out = <<>> /\ trace = <<>> /\ exc = "none" /\ nb = NoNb

GenReplicate ==
    /\ mpc.at = "harness"
    /\ \E zdraw \in Vectors(ZVals, G.n), udraw \in Vectors(ZVals, G.n \div G.m) :
          LET res == CorrelatedUniforms(G, zdraw, udraw)
              i   == gen.obs
          IN  gen' = [obs |-> i, has |-> TRUE,
                      zc |-> [j \in Members(G, i) |-> zdraw[j]],
                      ub |-> udraw[Block(G, i)],
                      uc |-> [j \in Members(G, i) |-> res.u[j]],
                      nxt |-> udraw[NextBlock(G, i)],
                      prev |-> IF gen.has
                               THEN [has |-> TRUE, zi |-> gen.zc[i], ub |-> gen.ub,
                                     ui |-> gen.uc[i], nxt |-> gen.nxt]
                               ELSE [has |-> FALSE]]
    /\ UNCHANGED <<G, L, pc, mpc, ret, out, trace, exc, nb>>

UNext == GenReplicate

SpecU == UInit /\ [][UNext]_vars

\* C1 (as claimed): with r = 1 the uniforms of one replicate are identical
\* for all observations of the same cluster.
C1_IdenticalWithinCluster ==
    (gen.has /\ G.r = RInt(1)) =>
        \A j, k \in DOMAIN gen.uc : gen.uc[j] = gen.uc[k]

\* What the code does instead: the uniforms of a cluster are identical
\* when r = 0, whatever the own draws are.
IdenticalAtRZero ==
    (gen.has /\ G.r = RInt(0)) =>
        \A j, k \in DOMAIN gen.uc : gen.uc[j] = gen.uc[k]

\* C2: grp labels observation i with block floor(i/m) (n/m labels, each on
\* m consecutive observations), and the uniform of observation i depends
\* only on its own draw and the latent draw of that block: two replicates
\* that agree on these two draws give observation i the same uniform.
C2_OwnClusterOnly ==
    /\ \A i \in 1..G.n : G.grp[i] = (i - 1) \div G.m
    /\ Cardinality({G.grp[i] : i \in 1..G.n}) = G.n \div G.m
    /\ (gen.has /\ gen.prev.has) =>
          /\ Cardinality(DOMAIN gen.uc) = G.m
          /\ (gen.zc[gen.obs] = gen.prev.zi /\ gen.ub = gen.prev.ub)
                => gen.uc[gen.obs] = gen.prev.ui

\* two replicates that agree on the draws of observation obs and differ in
\* the latent draw of another cluster
C2_Witness ==
    /\ gen.has /\ gen.prev.has /\ G.n \div G.m >= 2 /\ G.m >= 2
    /\ gen.zc[gen.obs] = gen.prev.zi /\ gen.ub = gen.prev.ub
    /\ gen.nxt # gen.prev.nxt
    /\ G.r = Rat(3, 5)

(***************************************************************************)
(* The negbinom harness: one call on arguments drawn from small sets.      *)
(***************************************************************************)
\* values of the uniforms, the means and the dispersion given to negbinom
UVals == {Rat(81, 1000), Rat(1, 2), Rat(919, 1000)}
MuVals == {Rat(1, 2), RInt(3), Rat(54598, 1000)}
ScaleVals == {Rat(3, 2), RInt(2), RInt(10)}

NbInit ==
    /\ G = Setup(1, 1, Rat(3, 5), RInt(10), <<<<0, 1, 0, 0, 1>>>>)
    /\ \E k \in 1..MaxLen :
         \E u_ \in Vectors(UVals, k), mu_ \in Vectors(MuVals, k), sc \in ScaleVals :
            nb = [has |-> FALSE, u |-> u_, mu |-> mu_, scale |-> sc]
    /\ L = Idle /\ pc = "idle" /\ mpc = [blk |-> 0, at |-> "nbharness", i |-> 0] /\ ret = <<>>
    /\ out = <<>> /\ trace = <<>> /\ exc = "none" /\ gen = NoGen

NbCall ==
    /\ mpc.at = "nbharness" /\ ~nb.has
    /\ \E xdraw \in Vectors(GammaVals, Len(nb.u)) :
          LET res == negbinom(G, nb.u, nb.mu, nb.scale, xdraw)
          IN  /\ nb' = [has |-> TRUE, u |-> nb.u, mu |-> nb.mu, scale |-> nb.scale,
                        F |-> res.F, gamma |-> res.gamma, ret |-> res.ret]
              /\ G' = res.G
    /\ UNCHANGED <<L, pc, mpc, ret, out, trace, exc, gen>>

NbNext == NbCall

SpecNB == NbInit /\ [][NbNext]_vars

IsNonNegInt(q) == q.den = 1 /\ q.num >= 0

\* C7: with p = (scale-1)/scale the gamma intensity has shape mu*(1-p)/p and
\* scale parameter p/(1-p); shape times scale parameter is mu, and
\* mu + shape * (scale parameter)^2 is scale * mu.
C7_GammaMoments ==
    nb.has =>
        LET p_ == RDiv(RSub(nb.scale, RInt(1)), nb.scale)
            th == nb.gamma.scale
        IN  /\ nb.F.p = p_
            /\ th = RDiv(p_, RSub(RInt(1), p_))
            /\ Len(nb.gamma.shape) = Len(nb.mu)
            /\ \A i \in 1..Len(nb.mu) :
                  LET sh == nb.gamma.shape[i]
                  IN  /\ sh = RDiv(RMul(nb.mu[i], RSub(RInt(1), p_)), p_)
                      /\ RMul(sh, th) = nb.mu[i]
                      /\ RAdd(nb.mu[i], RMul(sh, RMul(th, th)))
                            = RMul(nb.scale, nb.mu[i])

\* negbinom has returned for scale = 10 and a mean vector of two different means
C7_Witness ==
    /\ nb.has /\ nb.scale = RInt(10) /\ Len(nb.mu) = 2 /\ nb.mu[1] # nb.mu[2]
    /\ nb.gamma.scale = RInt(9)

\* C8: the array negbinom returns has the length of u and holds
\* non-negative integers.
C8_CountsSameLength ==
    nb.has =>
        /\ Len(nb.ret) = Len(nb.u)
        /\ \A i \in 1..Len(nb.ret) : IsNonNegInt(nb.ret[i])

\* negbinom has returned a vector of two counts, one of them zero and one positive
C8_Witness ==
    /\ nb.has /\ Len(nb.u) = 2
    /\ nb.ret[1] = RInt(0) /\ nb.ret[2].num > 0

(***************************************************************************)
(* Properties of one dosim call (SpecSim).                                 *)
(***************************************************************************)
\* dosim has returned and its caller has not yet taken the result
Returned == pc = "idle" /\ exc = "none" /\ ret # <<>>

\* the first j entries of the three lists are the results of replicates
\* 1..j: entry i is the scale of the null fit, the scale of the alternative
\* fit and the p-value of the i-th replicate (loop index i - 1)
FromReplicates(s0, s1, j) ==
    /\ Len(s0) = j /\ Len(s1) = j
    /\ Len(trace.fits) >= 2 * j
    /\ \A i \in 1..j :
          /\ s0[i] = trace.fits[2 * i - 1].scale
          /\ trace.fits[2 * i - 1].born = i - 1
          /\ trace.fits[2 * i - 1].exog = G.x0
          /\ s1[i] = trace.fits[2 * i].scale
          /\ trace.fits[2 * i].born = i - 1
          /\ trace.fits[2 * i].exog = G.x

PvFromReplicates(pv_, j) ==
    /\ Len(pv_) = j
    /\ Len(trace.tests) >= j
    /\ \A i \in 1..j : pv_[i] = trace.tests[i].pvalue

\* C3: after every completed replicate j the two scale lists and the
\* p-value list hold exactly j entries, entry i coming from replicate i; a
\* call that returns returns two scale lists of length exactly mcrep.
C3_ListsGrowWithReplicates ==
    /\ pc = "for" =>
          /\ FromReplicates(L.scales[1], L.scales[2], L.iter)
          /\ PvFromReplicates(L.pv, L.iter)
    /\ pc = "summ" =>
          /\ FromReplicates(L.scales[1], L.scales[2], trace.args.mcrep)
          /\ PvFromReplicates(L.pv, trace.args.mcrep)
    /\ Returned =>
          /\ Len(ret) = 2 /\ Len(ret[2]) = 2
          /\ FromReplicates(ret[2][1], ret[2][2], trace.args.mcrep)

\* a call with mcrep = 2 has returned two scale lists of two different entries
C3_Witness ==
    /\ Returned /\ trace.args.mcrep = 2
    /\ ret[2][1][1] # ret[2][1][2] /\ ret[2][2][1] # ret[2][2][2]

\* the p-values of the score tests of the call, in order
TestPvalues == [i \in 1..Len(trace.tests) |-> trace.tests[i].pvalue]

\* C4: the returned summary is [mean of the mcrep p-values, number of
\* p-values strictly below 0.1 divided by mcrep]; every replicate's
\* p-value is counted once and a p-value equal to 0.1 is not below 0.1.
C4_SummaryIsMeanAndFraction ==
    (Returned /\ trace.args.mcrep >= 1) =>
        LET k == trace.args.mcrep
        IN  /\ Len(trace.tests) = k
            /\ Len(ret[1]) = 2
            /\ RMul(ret[1][1], RInt(k)) = SumFrom(TestPvalues, 1)
            /\ ret[1][2] =
                  Rat(Cardinality({i \in 1..k : RLess(TestPvalues[i], Rat(1, 10))}), k)

\* a call with mcrep = 2 has returned after one p-value equal to 0.1 and one below it
C4_Witness ==
    /\ Returned /\ trace.args.mcrep = 2
    /\ TestPvalues = <<Rat(1, 10), RInt(0)>>
    /\ ret[1] = <<Rat(1, 20), Rat(1, 2)>>

InUnitInterval(q) == q.den > 0 /\ RLeq(RInt(0), q) /\ RLeq(q, RInt(1))

\* C5: for mcrep >= 1 and p-values in [0,1], both values of the returned
\* summary pair lie in [0,1].
C5_SummaryInUnitInterval ==
    (Returned /\ trace.args.mcrep >= 1) =>
        /\ \A i \in 1..Len(TestPvalues) : InUnitInterval(TestPvalues[i])
        /\ InUnitInterval(ret[1][1])
        /\ InUnitInterval(ret[1][2])

\* a call with mcrep = 1 has returned the summary [1, 0] and two singleton lists
C5_Witness ==
    /\ Returned /\ trace.args.mcrep = 1
    /\ ret[1] = <<RInt(1), RInt(0)>>
    /\ Len(ret[2][1]) = 1 /\ Len(ret[2][2]) = 1

\* how many generator runs, negbinom calls, fits and score tests the call has made
Counts == <<trace.gen, trace.y, Len(trace.fits), Len(trace.tests)>>

\* C10: in every replicate the steps run in the order uniforms, response
\* from mu[hyp], null fit on x0, alternative fit on x, score test; both
\* fits use the replicate's y, grp and cov_struct; the score test compares
\* the alternative model and the null result of the same replicate; a call
\* without failure makes 2*mcrep fits and mcrep score tests and then ends
\* (every step lowers Rank, which is never negative).
ReplicateOrder ==
    /\ pc \in {"gen", "geny", "fit0", "fit1", "score"} =>
          LET k == L.k
          IN  /\ k = L.iter - 1 /\ k < trace.args.mcrep
              /\ pc = "gen"   => Counts = <<k, k, 2 * k, k>>
              /\ pc = "geny"  => Counts = <<k + 1, k, 2 * k, k>>
              /\ pc = "fit0"  => Counts = <<k + 1, k + 1, 2 * k, k>>
              /\ pc = "fit1"  => Counts = <<k + 1, k + 1, 2 * k + 1, k>>
              /\ pc = "score" => Counts = <<k + 1, k + 1, 2 * k + 2, k>>
              /\ pc \in {"fit0", "fit1", "score"} => trace.ymu = G.mu[L.hyp + 1]
              /\ pc \in {"fit1", "score"} =>
                    L.m0 = GEE(L.y, G.x0, G.grp, L.cov_struct, k)
                    /\ L.r0.model = L.m0
              /\ pc = "score" =>
                    L.m1 = GEE(L.y, G.x, G.grp, L.cov_struct, k)
                    /\ L.r1.model = L.m1
    /\ pc = "for" =>
          /\ L.iter <= trace.args.mcrep
          /\ Counts = <<L.iter, L.iter, 2 * L.iter, L.iter>>
          /\ L.iter >= 1 =>
                /\ L.st.args.model = L.m1
                /\ L.st.args.submodel = L.r0
                /\ L.m1 = GEE(L.y, G.x, G.grp, L.cov_struct, L.iter - 1)
                /\ L.r0.model = GEE(L.y, G.x0, G.grp, L.cov_struct, L.iter - 1)
    /\ \A j \in 1..Len(trace.tests) :
          /\ trace.tests[j].model = [born |-> j - 1, exog |-> G.x]
          /\ trace.tests[j].submodel = [born |-> j - 1, exog |-> G.x0]
    /\ \A j \in 1..Len(trace.fits) :
          /\ trace.fits[j].born = (j - 1) \div 2
          /\ trace.fits[j].exog = IF j % 2 = 1 THEN G.x0 ELSE G.x
          /\ trace.fits[j].groups = G.grp
          /\ trace.fits[j].cov_struct = trace.args.cov_struct
          /\ trace.fits[j].scaletype = "X2"
    /\ Returned =>
          Counts = <<trace.args.mcrep, trace.args.mcrep,
                     2 * trace.args.mcrep, trace.args.mcrep>>

\* the number of steps the call can still take, at most
Rank ==
    IF pc = "idle" THEN 0
    ELSE IF pc = "summ" THEN 1
    ELSE IF pc = "enter" THEN 8 * L.mcrep + 3
    ELSE 8 * (L.mcrep - L.iter) +
         (CASE pc = "for" -> 2 [] pc = "score" -> 3 [] pc = "fit1" -> 4
            [] pc = "fit0" -> 5 [] pc = "geny" -> 6 [] pc = "gen" -> 7)

C10_ReplicateOrder == []ReplicateOrder /\ [][Rank' < Rank /\ Rank' >= 0]_vars

\* a call with mcrep = 2 under the alternative has returned after two
\* replicates with different scale estimates
C10_Witness ==
    /\ Returned /\ trace.args.mcrep = 2 /\ trace.args.hyp = 1
    /\ trace.args.cov_struct = "Exchangeable"
    /\ Len(trace.fits) = 4 /\ Len(trace.tests) = 2
    /\ trace.fits[1].scale # trace.fits[3].scale

(***************************************************************************)
(* Properties of the whole script (Spec).                                  *)
(***************************************************************************)
\* the state after an uncaught exception: no frame, no returned value, the
\* results of the earlier calls of the block only, no report of this block
Aborted ==
    /\ pc = "idle" /\ L = Idle /\ mpc.at = "traceback"
    /\ ret = <<>>
    /\ Len(G.rslt) = mpc.i /\ Len(G.scales) = mpc.i
    /\ \A j \in 1..Len(out) : out[j].blk < mpc.blk

\* C6: a failure of a step of a replicate propagates uncaught: dosim
\* returns nothing, and nothing runs afterwards (no later replicate, no
\* retry, no table, no plot, no later call).
C6_FailureAbortsRun ==
    [][exc = "none" /\ (exc' # "none" => Aborted')]_vars

\* the alternative fit of the second call of the second block has failed,
\* after the first block was reported
C6_Witness ==
    /\ exc = "fit1" /\ mpc = [blk |-> 2, at |-> "traceback", i |-> 1]
    /\ Len(trace.fits) = 1 /\ Len(out) = 2

\* the fixed simulation parameters
FixedNames == {"n", "m", "r", "p", "x", "x0", "grp", "mu", "scale"}

\* a call starts its loop with empty result lists, and what it returns
\* holds the results of its own replicates only
FreshStorage ==
    /\ (pc = "for" /\ L.iter = 0) => (L.scales = <<<<>>, <<>>>> /\ L.pv = <<>>)
    /\ Returned => FromReplicates(ret[2][1], ret[2][2], trace.args.mcrep)

\* C9: no step changes the fixed simulation parameters, although negbinom
\* and dosim assign to names p, r, x, u and z; and the result storage of a
\* call is created empty, so a result holds nothing of an earlier call or
\* of the module-level rslt and scales.
C9_ParametersFixedStorageFresh ==
    [][(\A name \in FixedNames : G'[name] = G[name]) /\ FreshStorage']_vars

\* the second call of the second block has returned while the module-level
\* lists hold the result of the call before it
C9_Witness ==
    /\ Returned /\ mpc = [blk |-> 2, at |-> "recv", i |-> 1]
    /\ Len(G.rslt) = 1 /\ Len(G.scales) = 1 /\ Len(out) = 2
    /\ Len(ret[2][1]) = 1 /\ G.p = RInt(5) /\ G.r = Rat(3, 5)
=============================================================================
